---- MODULE Spec2Model ----
(***************************************************************************)
(* AQN1 evaluator (src/src/evaluator.ts): the TLV decoder, the selection   *)
(* engine (select) and the rendering engine (parseAndEvaluate), as a state *)
(* machine over one evaluation of a query against an input buffer.         *)
(*                                                                         *)
(* One behaviour is one call of parseAndEvaluate: ParseInput builds the    *)
(* tree, each Select* action is one iteration of the loop of select() on   *)
(* the next selector of the query, Render is the modifier switch.  The     *)
(* query is drawn selector by selector, so the reachable states cover      *)
(* every query over the selectors drawn (each step selects a strictly      *)
(* smaller element, so the queries that do not fail are bounded by the     *)
(* input's length).                                                        *)
(***************************************************************************)
EXTENDS Integers, Sequences, FiniteSets, TLC

VARIABLES
    input,      \* the input buffer (Uint8Array), a sequence of bytes
    lib,        \* which checks the TLV library build performs (see LibBuilds)
    pc,         \* "start" | "select" | "done" | "failed"
    root,       \* syntheticRoot of parseAndEvaluate
    current,    \* the local `current` of select()
    prev,       \* `current` before the last selector step
    sel,        \* the last selector applied, [type, value]
    modifier,   \* the query's modifier once the renderer ran, "unset" before
    resolved,   \* the value the modifier switch dispatched on, "unset" before
    err,        \* message class of the Error thrown, "" when none
    out,        \* the result object `out` of parseAndEvaluate
    env,        \* what a run of the CLI is given: variant, argv, stdin, files
    cli         \* the state of main() of the CLI

vars == <<input, lib, pc, root, current, prev, sel, modifier, resolved, err, out, env, cli>>

----------------------------------------------------------------------------
(* Bounds of the model *)

\* most element headers in an input of the tree family
MaxTreeUnits == 4
\* longest input over the decode alphabet
MaxDecodeLen == 5
\* longest input over the encoding alphabet
MaxEncLen == 4
\* longest input over the string alphabet
MaxStrLen == 4
\* largest argument of .index(n)
MaxIndex == 2
\* most command-line arguments of a run of the CLI
MaxArgs == 3
\* the fixed limit the recursion depths are compared with; the inputs of the
\* tree family nest deeper
RecursionLimit == 2

----------------------------------------------------------------------------
(* Bytes and typed-array helpers *)

\* x << k on 32-bit integers (ECMAScript ToInt32 of the shifted value), 0 < k < 32
ShiftLeft(x, k) ==
    LET m == 2 ^ (32 - k)
        u == x % m
    IN  IF u >= m \div 2 THEN (u - m) * (2 ^ k) ELSE u * (2 ^ k)

Min(a, b) == IF a < b THEN a ELSE b
Max(a, b) == IF a > b THEN a ELSE b

\* TypedArray.prototype.slice / ArrayBuffer.prototype.slice on a sequence:
\* 0-based, end exclusive, negative indices count from the end, both clamped.
Slice(s, from, to) ==
    LET n == Len(s)
        a == IF from < 0 THEN Max(n + from, 0) ELSE Min(from, n)
        b == IF to < 0 THEN Max(n + to, 0) ELSE Min(to, n)
    IN  IF b <= a THEN << >> ELSE SubSeq(s, a + 1, b)

\* every sequence over S of length at most n
SeqsUpTo(S, n) == UNION { [1..k -> S] : k \in 0..n }

RECURSIVE Flatten(_)
\* the concatenation of a sequence of sequences
Flatten(ss) == IF Len(ss) = 0 THEN << >> ELSE Head(ss) \o Flatten(Tail(ss))

\* every concatenation of at most n sequences of U
ConcatsUpTo(U, n) == { Flatten(us) : us \in SeqsUpTo(U, n) }

----------------------------------------------------------------------------
(* The TLV library, BasicTLVParser.parse of @aokiapp/tlv (imported at       *)
(* evaluator.ts:20, called at evaluator.ts:78).  Its code is not part of    *)
(* the sources; it is modelled from the decoder contract of spec section    *)
(* 4.1 (identifier octets, short and long form length octets, value) and    *)
(* from the fields the call site reads (tag, length, value, endOffset).     *)
(* Two points the call site cannot settle are left open in `lib`:           *)
(*   uncheckedLength:  a declared length running past the buffer is not     *)
(*                     rejected: ArrayBuffer.slice clamps the value         *)
(*   indefiniteAsZero: the length octet 0x80 is not rejected: it reads as   *)
(*                     a long form of zero length octets, length 0          *)
(* No build reports an indefinite length to the caller: the result has no   *)
(* such field and parseOneTLV sets indefinite: false.                       *)
(***************************************************************************)

LibBuilds == [uncheckedLength : BOOLEAN, indefiniteAsZero : BOOLEAN]

Fail == [ok |-> FALSE]

\* the tag of the result: class and constructed bit of the first octet
TagResult(rem, tagNumber, newOffset) ==
    [ok |-> TRUE, tagClass |-> rem[1] \div 64, constructed |-> (rem[1] \div 32) % 2 = 1,
     tagNumber |-> tagNumber, newOffset |-> newOffset]

RECURSIVE readLongTag(_, _, _)
\* do { b = view.getUint8(offset++); tagNumber = (tagNumber << 7) | (b & 0x7f) } while (b & 0x80)
readLongTag(rem, offset, tagNumber) ==
    IF offset >= Len(rem) THEN Fail
    ELSE IF rem[offset + 1] >= 128
         THEN readLongTag(rem, offset + 1, ShiftLeft(tagNumber, 7) + (rem[offset + 1] % 128))
         ELSE TagResult(rem, ShiftLeft(tagNumber, 7) + (rem[offset + 1] % 128), offset + 1)

readTagInfo(rem) ==
    IF Len(rem) < 1 THEN Fail
    ELSE IF rem[1] % 32 # 31 THEN TagResult(rem, rem[1] % 32, 1)
    ELSE readLongTag(rem, 1, 0)

RECURSIVE readLongLength(_, _, _, _)
\* for (i < numBytes) length = (length << 8) | view.getUint8(offset++)
readLongLength(rem, offset, numBytes, length) ==
    IF numBytes = 0 THEN [ok |-> TRUE, length |-> length, newOffset |-> offset]
    ELSE IF offset >= Len(rem) THEN Fail
    ELSE readLongLength(rem, offset + 1, numBytes - 1, ShiftLeft(length, 8) + rem[offset + 1])

readLength(rem, offset) ==
    IF offset >= Len(rem) THEN Fail
    ELSE IF rem[offset + 1] < 128
         THEN [ok |-> TRUE, length |-> rem[offset + 1], newOffset |-> offset + 1]
    ELSE IF rem[offset + 1] = 128 /\ ~lib.indefiniteAsZero THEN Fail
    ELSE readLongLength(rem, offset + 1, rem[offset + 1] % 128, 0)

readValue(rem, offset, length) ==
    IF ~lib.uncheckedLength /\ (offset + length > Len(rem) \/ length < 0) THEN Fail
    ELSE [ok |-> TRUE, value |-> Slice(rem, offset, offset + length),
          newOffset |-> offset + length]

\* parse, once the value v is read after the length l and the tag t
ParseResult(t, l, v) ==
    IF ~v.ok THEN Fail
    ELSE [ok |-> TRUE,
          tag |-> [tagClass |-> t.tagClass, constructed |-> t.constructed,
                   tagNumber |-> t.tagNumber],
          length |-> l.length, value |-> v.value, endOffset |-> v.newOffset]

\* parse, once the length l is read after the tag t
ParseValue(rem, t, l) ==
    IF ~l.ok THEN Fail ELSE ParseResult(t, l, readValue(rem, l.newOffset, l.length))

\* parse, once the tag t is read
ParseLength(rem, t) ==
    IF ~t.ok THEN Fail ELSE ParseValue(rem, t, readLength(rem, t.newOffset))

\* BasicTLVParser.parse(buffer): { tag, length, value, endOffset }
BasicTLVParserParse(rem) == ParseLength(rem, readTagInfo(rem))

----------------------------------------------------------------------------
(* The decoder of evaluator.ts *)

TagClassName(c) ==
    IF c = 0 THEN "UNIVERSAL" ELSE IF c = 1 THEN "APPLICATION"
    ELSE IF c = 2 THEN "CONTEXT" ELSE "PRIVATE"

\* ((tagClass & 0x03) << 6) | (constructed ? 0x20 : 0x00) | (tagNumber < 31 ? tagNumber & 0x1f : 0x1f)
TagFirstOctet(tag) ==
    (tag.tagClass % 4) * 64 + (IF tag.constructed THEN 32 ELSE 0)
        + (IF tag.tagNumber < 31 THEN tag.tagNumber % 32 ELSE 31)

RECURSIVE parseOneTLV(_, _, _), parseTLVLoop(_, _, _, _), parseTLVLoopOnce(_, _, _, _)

\* parseTLVLoop with `if (pos < end)` for the while: one element is read
parseTLVLoopOnce(buf, pos, end, nodes) ==
    IF pos >= end THEN [ok |-> TRUE, nodes |-> nodes]
    ELSE IF ~parseOneTLV(buf, pos, end).ok THEN Fail
    ELSE [ok |-> TRUE, nodes |-> Append(nodes, parseOneTLV(buf, pos, end).node)]

\* parseOneTLV, lines 83-118: the node of the library result `res` with the
\* decoded children `kids`
NodeOf(buf, startPos, res, kids) ==
    LET consumed == res.endOffset
        contentBytes == res.value
        headerLength == consumed - Len(contentBytes)
    IN  IF ~kids.ok THEN Fail
        ELSE [ok |-> TRUE,
              node |-> [offset |-> startPos,
                        tagFirstOctet |-> TagFirstOctet(res.tag),
                        tagClass |-> TagClassName(res.tag.tagClass),
                        constructed |-> res.tag.constructed,
                        tagNumber |-> res.tag.tagNumber,
                        length |-> res.length,
                        indefinite |-> FALSE,
                        headerBytes |-> Slice(buf, startPos, startPos + headerLength),
                        contentBytes |-> contentBytes,
                        fullBytes |-> Slice(buf, startPos, startPos + consumed),
                        children |-> kids.nodes],
              nextPos |-> startPos + consumed]

\* parseOneTLV, lines 98-101: children are decoded only when constructed
ChildrenOf(buf, startPos, res) ==
    IF ~res.ok THEN Fail
    ELSE NodeOf(buf, startPos, res,
                IF res.tag.constructed
                THEN parseTLVLoop(res.value, 0, Len(res.value), << >>)
                ELSE [ok |-> TRUE, nodes |-> << >>])

\* parseOneTLV(buf, pos, end): { node, nextPos }, or a thrown Error (ok = FALSE)
parseOneTLV(buf, pos, end) ==
    IF pos >= end THEN Fail
    ELSE ChildrenOf(buf, pos, BasicTLVParserParse(Slice(buf, pos, end)))

\* the body of the while loop of parseTLVStream, `one` the result of parseOneTLV
LoopBody(buf, end, nodes, one) ==
    IF ~one.ok THEN Fail
    ELSE parseTLVLoop(buf, one.nextPos, end, Append(nodes, one.node))

\* the while loop of parseTLVStream
parseTLVLoop(buf, pos, end, nodes) ==
    IF pos >= end THEN [ok |-> TRUE, nodes |-> nodes]
    ELSE LoopBody(buf, end, nodes, parseOneTLV(buf, pos, end))

\* parseTLVStream(buf): start = 0, end = buf.length, as at every call site
parseTLVStream(buf) == parseTLVLoop(buf, 0, Len(buf), << >>)

\* SyntheticNode carrying the tag number of an OCTET STRING
SyntheticNodeOctetString(offset, bytes, children) ==
    [offset |-> offset, tagFirstOctet |-> 0, tagClass |-> "UNIVERSAL",
     constructed |-> TRUE, tagNumber |-> 4, length |-> Len(bytes),
     indefinite |-> FALSE, headerBytes |-> << >>, contentBytes |-> bytes,
     fullBytes |-> bytes, children |-> children]

\* the synthetic, headerless, constructed node built around decoded bytes
SyntheticNode(offset, bytes, children) ==
    [offset |-> offset, tagFirstOctet |-> 0, tagClass |-> "UNIVERSAL",
     constructed |-> TRUE, tagNumber |-> 0, length |-> Len(bytes),
     indefinite |-> FALSE, headerBytes |-> << >>, contentBytes |-> bytes,
     fullBytes |-> bytes, children |-> children]

NoNode == [none |-> TRUE]
NoSelector == [type |-> "none", value |-> 0]
NoOutput == [hasBinary |-> FALSE, binary |-> << >>, hasText |-> FALSE, text |-> << >>]
\* the evaluator called as a library: there is no CLI run
NoEnv == [variant |-> "library"]
NoCli == [pc |-> "none"]

----------------------------------------------------------------------------
(* Inputs *)

\* element headers (tag, length) of the tree family: tag 0, INTEGER and
\* SEQUENCE, so that inputs nest and hold several elements with one tag
TreeUnits == { <<0, 0>>, <<2, 0>>, <<48, 0>>, <<48, 2>>, <<48, 4>> }
\* BIT STRING, OCTET STRING, constructed OCTET STRING
DecodeBytes == {0, 3, 4, 36}
\* long-form tag, SEQUENCE, 0x80 (indefinite), 0x81 (long-form length)
EncBytes == {0, 2, 31, 48, 128, 129}
\* INTEGER, UTF8String, 0x83 ([CONTEXT 3], a UTF-8 continuation byte, a
\* long-form length), 0xC2 (a UTF-8 lead byte)
StrBytes == {2, 12, 131, 194}

Inputs ==
    ConcatsUpTo(TreeUnits, MaxTreeUnits) \cup SeqsUpTo(DecodeBytes, MaxDecodeLen)
        \cup SeqsUpTo(EncBytes, MaxEncLen) \cup SeqsUpTo(StrBytes, MaxStrLen)

----------------------------------------------------------------------------
(* The evaluation *)

Init ==
    /\ lib \in LibBuilds
    /\ input \in Inputs
    /\ pc = "start"
    /\ root = NoNode
    /\ current = NoNode
    /\ prev = NoNode
    /\ sel = NoSelector
    /\ modifier = "unset"
    /\ resolved = "unset"
    /\ err = ""
    /\ out = NoOutput
    /\ env = NoEnv
    /\ cli = NoCli

\* lines 329-343: the root around the decoded top-level elements `top`
BuildRoot(top) ==
    IF top.ok
    THEN /\ root' = SyntheticNode(0, input, top.nodes)
         /\ current' = SyntheticNode(0, input, top.nodes)
         /\ pc' = "select"
         /\ err' = ""
    ELSE /\ root' = root
         /\ current' = current
         /\ pc' = "failed"
         /\ err' = "TLV Parse Error"

\* parseAndEvaluate, lines 328-341: decode the whole input, wrap it in the root
ParseInput ==
    /\ pc = "start"
    /\ BuildRoot(parseTLVStream(input))
    /\ UNCHANGED <<input, lib, prev, sel, modifier, resolved, out>>

----------------------------------------------------------------------------
(* select(): one action per branch of the loop body *)

RECURSIVE findLoopBreadthFirst(_, _)
\* findLoop with the children pushed at the end of the stack (stack.push)
findLoopBreadthFirst(stack, t) ==
    IF Len(stack) = 0 THEN [found |-> FALSE]
    ELSE LET n == Head(stack)
         IN  IF n.tagFirstOctet = t THEN [found |-> TRUE, node |-> n]
             ELSE IF n.constructed /\ Len(n.children) > 0
                  THEN findLoopBreadthFirst(Tail(stack) \o n.children, t)
                  ELSE findLoopBreadthFirst(Tail(stack), t)

RECURSIVE findLoop(_, _)
\* the while loop of findFirstByTag over `stack`
findLoop(stack, t) ==
    IF Len(stack) = 0 THEN [found |-> FALSE]
    ELSE LET n == Head(stack)
         IN  IF n.tagFirstOctet = t THEN [found |-> TRUE, node |-> n]
             ELSE IF n.constructed /\ Len(n.children) > 0
                  THEN findLoop(n.children \o Tail(stack), t)
                  ELSE findLoop(Tail(stack), t)

\* findFirstByTag(root, t): the stack starts as the children of root
findFirstByTag(node, t) == findLoop(node.children, t)

\* the arguments of .tag(t) the queries use
TagArgs == {0, 2, 48}

\* Throw with the error caught and the loop going on
ThrowSwallowed(selector, message) ==
    /\ pc' = "select"
    /\ err' = message
    /\ sel' = selector
    /\ prev' = current
    /\ UNCHANGED <<input, lib, root, current, modifier, resolved, out>>

\* a selector step that throws: `current` is not assigned
Throw(selector, message) ==
    /\ pc' = "failed"
    /\ err' = message
    /\ sel' = selector
    /\ prev' = current
    /\ UNCHANGED <<input, lib, root, current, modifier, resolved, out>>

\* Select with the new selection written over the root
SelectMovingRoot(selector, node) ==
    /\ pc' = "select"
    /\ current' = node
    /\ root' = node
    /\ sel' = selector
    /\ prev' = current
    /\ UNCHANGED <<input, lib, modifier, resolved, err, out>>

\* a selector step that assigns `current`
Select(selector, node) ==
    /\ pc' = "select"
    /\ current' = node
    /\ sel' = selector
    /\ prev' = current
    /\ UNCHANGED <<input, lib, root, modifier, resolved, err, out>>

\* SelectIndex with the bound test n > children.length
SelectIndexOffByOne(n) ==
    /\ pc = "select"
    /\ LET s == [type |-> "index", value |-> n]
       IN  IF ~current.constructed THEN Throw(s, "Index Out of Bounds")
           ELSE IF n < 0 \/ n > Len(current.children) THEN Throw(s, "Index Out of Bounds")
           ELSE Select(s, IF n < Len(current.children) THEN current.children[n + 1]
                          ELSE NoNode)

\* isIndexSelector(sel): lines 268-275
SelectIndex(n) ==
    /\ pc = "select"
    /\ LET s == [type |-> "index", value |-> n]
       IN  IF ~current.constructed THEN Throw(s, "Index Out of Bounds")
           ELSE IF n < 0 \/ n >= Len(current.children) THEN Throw(s, "Index Out of Bounds")
           ELSE Select(s, current.children[n + 1])

\* isTagSelector(sel): lines 276-281
SelectTag(t) ==
    /\ pc = "select"
    /\ LET s == [type |-> "tag", value |-> t]
           found == findFirstByTag(current, t)
       IN  IF ~found.found THEN Throw(s, "Tag Not Found")
           ELSE Select(s, found.node)

\* IsDecodable without the test of the tag number
IsDecodableAnyNumber(node) == node.tagClass = "UNIVERSAL"

\* the guard of decode(), line 284
IsDecodable(node) ==
    node.tagClass = "UNIVERSAL" /\ (node.tagNumber = 4 \/ node.tagNumber = 3)

\* DecodeInner without the slice(1) of a BIT STRING
DecodeInnerUnstripped(node) == [ok |-> TRUE, bytes |-> node.contentBytes]

\* the bytes decode() re-decodes, lines 287-294; ok = FALSE when it throws
DecodeInner(node) ==
    IF node.tagNumber = 3
    THEN IF Len(node.contentBytes) < 1 THEN Fail
         ELSE [ok |-> TRUE, bytes |-> Slice(node.contentBytes, 1, Len(node.contentBytes))]
    ELSE [ok |-> TRUE, bytes |-> node.contentBytes]

\* DecodedRoot with the decoded bytes wrapped in a rebuilt OCTET STRING header
DecodedRootRewrapped(s, bytes, children) ==
    IF ~children.ok THEN Throw(s, "Value Error")
    ELSE Select(s, SyntheticNode(current.offset, << 4, Len(bytes) >> \o bytes, children.nodes))

\* lines 295-314: the synthetic root around the elements decoded from `bytes`
DecodedRoot(s, bytes, children) ==
    IF ~children.ok THEN Throw(s, "Value Error")
    ELSE Select(s, SyntheticNode(current.offset, bytes, children.nodes))

\* lines 287-297: the inner bytes are decoded
DecodeBytesOf(s, inner) ==
    IF ~inner.ok THEN Throw(s, "Value Error")
    ELSE DecodedRoot(s, inner.bytes, parseTLVStream(inner.bytes))

\* isDecodeSelector(sel): lines 282-314
SelectDecode ==
    /\ pc = "select"
    /\ IF ~IsDecodable(current) THEN Throw([type |-> "decode", value |-> 0], "Value Error")
       ELSE DecodeBytesOf([type |-> "decode", value |-> 0], DecodeInner(current))

----------------------------------------------------------------------------
(* Text.  A text is a sequence of pieces: [lit |-> s] is the string s,     *)
(* [chars |-> c] the string of the code points c.                          *)

Lit(s) == << [lit |-> s] >>
Chars(c) == << [chars |-> c] >>

HexDigits == << "0", "1", "2", "3", "4", "5", "6", "7",
                "8", "9", "a", "b", "c", "d", "e", "f" >>

RECURSIVE toHexStringUpper(_)
\* toHexString with the digits of toString(16) in upper case
toHexStringUpper(buf) ==
    IF Len(buf) = 0 THEN ""
    ELSE << "0", "1", "2", "3", "4", "5", "6", "7",
            "8", "9", "A", "B", "C", "D", "E", "F" >>[(Head(buf) \div 16) + 1]
         \o << "0", "1", "2", "3", "4", "5", "6", "7",
               "8", "9", "A", "B", "C", "D", "E", "F" >>[(Head(buf) % 16) + 1]
         \o toHexStringUpper(Tail(buf))

RECURSIVE toHexString(_)
\* b.toString(16).padStart(2, "0") of every byte, joined
toHexString(buf) ==
    IF Len(buf) = 0 THEN ""
    ELSE HexDigits[(Head(buf) \div 16) + 1] \o HexDigits[(Head(buf) % 16) + 1]
             \o toHexString(Tail(buf))

toHex(buf) == Lit(toHexString(buf))

RECURSIVE unsignedValue(_, _)
\* the loop x = (x << 8n) + BigInt(value[i])
unsignedValue(value, x) ==
    IF Len(value) = 0 THEN x ELSE unsignedValue(Tail(value), x * 256 + Head(value))

\* integerValue without the subtraction of 1n << bits
integerValueUnsigned(value) ==
    IF Len(value) = 0 THEN 0 ELSE unsignedValue(value, 0)

\* decodeInteger(value) before .toString()
integerValue(value) ==
    IF Len(value) = 0 THEN 0
    ELSE LET x == unsignedValue(value, 0)
         IN  IF value[1] >= 128 THEN x - 2 ^ (Len(value) * 8) ELSE x

decodeInteger(value) == Lit(ToString(integerValue(value)))

----------------------------------------------------------------------------
(* utf8Decoder = new TextDecoder("utf-8"): the WHATWG UTF-8 decoder in its  *)
(* default error mode "replacement" (the constructor is given no            *)
(* { fatal: true }), so decode() never throws: every malformed sequence     *)
(* becomes U+FFFD.  `malformed` records that the decoder met one.           *)

Replacement == 65533

Utf8Start(text, malformed) ==
    [cp |-> 0, seen |-> 0, needed |-> 0, lower |-> 128, upper |-> 191,
     text |-> text, malformed |-> malformed]

RECURSIVE utf8Run(_, _, _)
utf8Run(bytes, i, st) ==
    IF i > Len(bytes)
    THEN IF st.needed # 0
         THEN [text |-> Append(st.text, Replacement), malformed |-> TRUE]
         ELSE [text |-> st.text, malformed |-> st.malformed]
    ELSE
    LET b == bytes[i]
    IN  IF st.needed = 0
        THEN IF b <= 127 THEN utf8Run(bytes, i + 1, Utf8Start(Append(st.text, b), st.malformed))
             ELSE IF b >= 194 /\ b <= 223
                  THEN utf8Run(bytes, i + 1, [st EXCEPT !.needed = 1, !.cp = b % 32])
             ELSE IF b >= 224 /\ b <= 239
                  THEN utf8Run(bytes, i + 1,
                               [st EXCEPT !.needed = 2, !.cp = b % 16,
                                          !.lower = IF b = 224 THEN 160 ELSE 128,
                                          !.upper = IF b = 237 THEN 159 ELSE 191])
             ELSE IF b >= 240 /\ b <= 244
                  THEN utf8Run(bytes, i + 1,
                               [st EXCEPT !.needed = 3, !.cp = b % 8,
                                          !.lower = IF b = 240 THEN 144 ELSE 128,
                                          !.upper = IF b = 244 THEN 143 ELSE 191])
             ELSE utf8Run(bytes, i + 1, Utf8Start(Append(st.text, Replacement), TRUE))
        ELSE IF b < st.lower \/ b > st.upper
             \* the byte is put back and read again as a first byte
             THEN utf8Run(bytes, i, Utf8Start(Append(st.text, Replacement), TRUE))
             ELSE LET cp == st.cp * 64 + (b % 64)
                  IN  IF st.seen + 1 # st.needed
                      THEN utf8Run(bytes, i + 1,
                                   [st EXCEPT !.cp = cp, !.seen = st.seen + 1,
                                              !.lower = 128, !.upper = 191])
                      ELSE utf8Run(bytes, i + 1, Utf8Start(Append(st.text, cp), st.malformed))

\* utf8Decoder.decode(bytes); a leading byte order mark is dropped (ignoreBOM is false)
utf8Decode(bytes) ==
    LET r == utf8Run(bytes, 1, Utf8Start(<< >>, FALSE))
    IN  IF Len(r.text) > 0 /\ r.text[1] = 65279
        THEN [text |-> Tail(r.text), malformed |-> r.malformed]
        ELSE r

----------------------------------------------------------------------------
(* Renderers *)

\* UNIVERSAL_NAMES[first]; "" when the key is absent
UniversalName(first) ==
    CASE first = 1 -> "BOOLEAN"
      [] first = 2 -> "INTEGER"
      [] first = 3 -> "BIT STRING"
      [] first = 4 -> "OCTET STRING"
      [] first = 5 -> "NULL"
      [] first = 6 -> "OBJECT IDENTIFIER"
      [] first = 12 -> "UTF8String"
      [] first = 18 -> "NumericString"
      [] first = 19 -> "PrintableString"
      [] first = 20 -> "TeletexString"
      [] first = 21 -> "VideotexString"
      [] first = 22 -> "IA5String"
      [] first = 23 -> "UTCTime"
      [] first = 24 -> "GeneralizedTime"
      [] first = 25 -> "GraphicString"
      [] first = 26 -> "VisibleString"
      [] first = 27 -> "GeneralString"
      [] first = 28 -> "UniversalString"
      [] first = 30 -> "BMPString"
      [] first = 48 -> "SEQUENCE"
      [] first = 49 -> "SET"
      [] OTHER -> ""

typeOfString(node) ==
    IF node.tagClass = "UNIVERSAL"
    THEN IF UniversalName(node.tagFirstOctet) # ""
         THEN UniversalName(node.tagFirstOctet)
         ELSE "UNIVERSAL " \o ToString(node.tagNumber)
    ELSE node.tagClass \o " " \o ToString(node.tagNumber)

typeOf(node) == Lit(typeOfString(node))

isStringNode(node) ==
    IF node.tagClass # "UNIVERSAL" \/ node.constructed THEN FALSE
    ELSE node.tagFirstOctet \in {12, 22, 19, 26, 30}

\* chooseAuto with count for the constructed elements
chooseAutoCount(node) ==
    IF node.tagClass = "UNIVERSAL" /\ ~node.constructed /\ node.tagNumber = 2 THEN "int"
    ELSE IF isStringNode(node) THEN "utf8"
    ELSE IF node.constructed THEN "count"
    ELSE "hex"

chooseAuto(node) ==
    IF node.tagClass = "UNIVERSAL" /\ ~node.constructed /\ node.tagNumber = 2 THEN "int"
    ELSE IF isStringNode(node) THEN "utf8"
    ELSE IF node.constructed THEN "tlv"
    ELSE "hex"

RECURSIVE pretty(_, _), prettyChildren(_, _)
pretty(node, indent) ==
    LET head == Lit(indent \o typeOfString(node)
                      \o (IF node.constructed THEN " (constructed)" ELSE "")
                      \o ", length=" \o ToString(node.length))
    IN  IF ~node.constructed
        THEN IF node.tagClass = "UNIVERSAL" /\ node.tagNumber = 2
             THEN head \o Lit("\n" \o indent \o "  INTEGER: ") \o decodeInteger(node.contentBytes)
             ELSE IF isStringNode(node)
             THEN head \o Lit("\n" \o indent \o "  String: \"")
                       \o Chars(utf8Decode(node.contentBytes).text) \o Lit("\"")
             ELSE head \o Lit("\n" \o indent \o "  Hex: ")
                       \o (IF Len(node.contentBytes) > 32
                           THEN toHex(Slice(node.contentBytes, 0, 32)) \o Chars(<<8230>>)
                           ELSE toHex(node.contentBytes))
        ELSE head \o prettyChildren(node.children, indent \o "  ")

\* the for loop of pretty over node.children
prettyChildren(children, indent) ==
    IF Len(children) = 0 THEN << >>
    ELSE Lit("\n") \o pretty(Head(children), indent) \o prettyChildren(Tail(children), indent)

RECURSIVE childCountDeep(_)
\* childCount over the whole subtree: every descendant is counted
childCountDeep(node) ==
    IF Len(node.children) = 0 THEN 0
    ELSE 1 + childCountDeep(Head(node.children))
           + childCountDeep([node EXCEPT !.children = Tail(node.children)])

\* selected.children.length, line 368
childCount(node) == Len(node.children)

\* the modifier tokens of a query; "none" is a query without modifier (null)
Modifiers == {"tlv", "tlvhex", "hex", "int", "count", "utf8", "type", "pretty", "auto", "none"}

\* Resolve without the call of chooseAuto
ResolveKeepAuto(m, selected) == IF m = "none" THEN "auto" ELSE m

\* modifier === "auto" ? chooseAuto(selected) : modifier, after ast.modifier ?? "auto"
Resolve(m, selected) == IF m \in {"auto", "none"} THEN chooseAuto(selected) ELSE m

\* Binary with out.text assigned as well
BinaryWithText(bytes) ==
    [hasBinary |-> TRUE, binary |-> bytes, hasText |-> TRUE, text |-> << >>]

Binary(bytes) == [hasBinary |-> TRUE, binary |-> bytes, hasText |-> FALSE, text |-> << >>]
Text(t) == [hasBinary |-> FALSE, binary |-> << >>, hasText |-> TRUE, text |-> t]

\* a case of the switch that throws
RenderThrow(message) == /\ pc' = "failed" /\ err' = message /\ out' = out
\* a case of the switch that assigns out.binary or out.text and breaks
RenderReturn(o) == /\ pc' = "done" /\ err' = err /\ out' = o

\* parseAndEvaluate, lines 343-390: select() has returned `current`
Render(m) ==
    /\ pc = "select"
    /\ modifier' = m
    /\ resolved' = Resolve(m, current)
    /\ LET selected == current
           r == Resolve(m, selected)
       IN  CASE r = "tlv" -> RenderReturn(Binary(selected.fullBytes))
             [] r = "tlvhex" -> RenderReturn(Text(toHex(selected.fullBytes)))
             [] r = "hex" -> RenderReturn(Text(toHex(selected.contentBytes)))
             [] r = "int" ->
                  IF ~(selected.tagClass = "UNIVERSAL" /\ ~selected.constructed
                         /\ selected.tagNumber = 2)
                  THEN RenderThrow("Incompatible Output Format")
                  ELSE RenderReturn(Text(decodeInteger(selected.contentBytes)))
             [] r = "count" ->
                  IF ~selected.constructed THEN RenderThrow("Incompatible Output Format")
                  ELSE RenderReturn(Text(Lit(ToString(childCount(selected)))))
             [] r = "utf8" ->
                  IF ~isStringNode(selected) THEN RenderThrow("Value Error")
                  ELSE RenderReturn(Text(Chars(utf8Decode(selected.contentBytes).text)))
             [] r = "type" -> RenderReturn(Text(typeOf(selected)))
             [] r = "pretty" -> RenderReturn(Text(pretty(selected, "")))
             [] OTHER -> RenderThrow("Invalid Modifier")
    /\ prev' = NoNode
    /\ sel' = NoSelector
    /\ UNCHANGED <<input, lib, root, current>>

\* the type guards of index.ts, lines 70-78
isIndexSelector(s) == s.type = "index"
isTagSelector(s) == s.type = "tag"
isDecodeSelector(s) == s.type = "decode"

RECURSIVE parseDepth(_)
\* the number of parseTLVStream frames on the call stack while `nodes` are
\* decoded: parseOneTLV calls parseTLVStream for every constructed element
parseDepth(nodes) ==
    IF Len(nodes) = 0 THEN 1
    ELSE Max(IF Head(nodes).constructed THEN 1 + parseDepth(Head(nodes).children) ELSE 1,
             parseDepth(Tail(nodes)))

RECURSIVE prettyDepth(_)
\* the number of pretty frames on the call stack while `node` is printed:
\* pretty calls itself for every child of a constructed element
prettyDepth(node) ==
    IF ~node.constructed \/ Len(node.children) = 0 THEN 1
    ELSE Max(1 + prettyDepth(Head(node.children)),
             prettyDepth([node EXCEPT !.children = Tail(node.children)]))

Next ==
    \/ ParseInput /\ UNCHANGED <<env, cli>>
    \/ \E n \in 0..MaxIndex : SelectIndex(n) /\ UNCHANGED <<env, cli>>
    \/ \E t \in TagArgs : SelectTag(t) /\ UNCHANGED <<env, cli>>
    \/ SelectDecode /\ UNCHANGED <<env, cli>>
    \/ \E m \in Modifiers : Render(m) /\ UNCHANGED <<env, cli>>

Spec == Init /\ [][Next]_vars

----------------------------------------------------------------------------
(* The CLI: main() of src/bin/aqn1.ts (variant "stdin") and of the CLI     *)
(* that accepts -f/--file (variant "file").  An argument is a sequence of  *)
(* pieces: "-", "=" and words, so that startsWith and slice look at the    *)
(* text of the argument.  A query is the sequence of its steps and its     *)
(* modifier.                                                               *)

\* the query parser (aqn1parser.gen.js, called by parseQuery, index.ts:54) is
\* not part of the sources; it is modelled from the grammar of spec section 6:
\* steps, then at most one modifier
StepAtoms == {".index(0)", ".tag(0x02)", ".decode()"}
ModifierAtoms == {"@int", "@count", "@tlvhex"}

StepOf(atom) ==
    CASE atom = ".index(0)" -> [type |-> "index", value |-> 0]
      [] atom = ".tag(0x02)" -> [type |-> "tag", value |-> 2]
      [] atom = ".decode()" -> [type |-> "decode", value |-> 0]

ModifierOf(atom) ==
    CASE atom = "@int" -> "int" [] atom = "@count" -> "count" [] atom = "@tlvhex" -> "tlvhex"

\* parseQuery(input): the AST, or ok = FALSE for the SyntaxError thrown
parseQuery(text) ==
    IF Len(text) = 0 THEN Fail
    ELSE IF \A i \in 1..Len(text) : text[i] \in StepAtoms
    THEN [ok |-> TRUE, selectors |-> [i \in 1..Len(text) |-> StepOf(text[i])],
          modifier |-> "none"]
    ELSE IF /\ \A i \in 1..(Len(text) - 1) : text[i] \in StepAtoms
            /\ text[Len(text)] \in ModifierAtoms
    THEN [ok |-> TRUE, selectors |-> [i \in 1..(Len(text) - 1) |-> StepOf(text[i])],
          modifier |-> ModifierOf(text[Len(text)])]
    ELSE Fail

\* String.prototype.startsWith
startsWith(a, prefix) == Len(a) >= Len(prefix) /\ SubSeq(a, 1, Len(prefix)) = prefix

\* Array.prototype.includes
includes(args, a) == \E i \in 1..Len(args) : args[i] = a

\* Array.prototype.findIndex, 1-based; 0 when no element passes the test.
\* passes[i] is the result of the test on the i-th element
findIndex(passes) ==
    IF \E i \in 1..Len(passes) : passes[i]
    THEN CHOOSE i \in 1..Len(passes) : passes[i] /\ \A j \in 1..(i - 1) : ~passes[j]
    ELSE 0

\* undefined, as a value no argument equals
Undefined == << "<undefined>" >>

\* args[i] for a 1-based i, undefined outside the array
at(args, i) == IF i >= 1 /\ i <= Len(args) THEN args[i] ELSE Undefined

\* Array.prototype.find
find(args, passes) == at(args, findIndex(passes))

\* !x for an argument or undefined
falsy(x) == x = Undefined \/ x = << >>

OptH == << "-", "h" >>
OptHelp == << "-", "-", "help" >>
OptV == << "-", "v" >>
OptVersion == << "-", "-", "version" >>
OptF == << "-", "f" >>
OptFile == << "-", "-", "file" >>
FileEq == << "-", "-", "file", "=" >>

\* the queries and paths of the command lines
CliQueries ==
    { << ".index(0)" >>, << ".tag(0x02)", "@int" >>, << ".index(0)", ".decode()", "@count" >> }
CliPaths == { << "a.der" >>, << "missing.der" >> }
CliTokens ==
    {OptH, OptHelp, OptV, OptVersion, OptF, OptFile, FileEq, FileEq \o << "a.der" >>}
        \cup CliQueries \cup CliPaths

\* the file system: a.der holds an OCTET STRING around an INTEGER, any other
\* path cannot be read
Files(path) ==
    IF path = << "a.der" >> THEN [ok |-> TRUE, bytes |-> << 4, 2, 2, 0 >>] ELSE Fail

\* stdin: a SEQUENCE around an INTEGER, nothing (a TTY or an empty pipe), or
\* a stream that raises an error
Stdins == { [ok |-> TRUE, bytes |-> << 48, 2, 2, 0 >>], [ok |-> TRUE, bytes |-> << >>], Fail }

NoStream == [kind |-> "none"]

CliInit ==
    /\ lib \in LibBuilds
    /\ env \in [variant : {"stdin", "file"}, args : SeqsUpTo(CliTokens, MaxArgs),
                stdin : Stdins]
    /\ cli = [pc |-> "args", queryArg |-> Undefined, filePath |-> Undefined,
              data |-> << >>, ast |-> Fail, step |-> 0, exitCode |-> 0,
              stdout |-> NoStream, stderr |-> ""]
    /\ input = << >>
    /\ pc = "idle"
    /\ root = NoNode
    /\ current = NoNode
    /\ prev = NoNode
    /\ sel = NoSelector
    /\ modifier = "unset"
    /\ resolved = "unset"
    /\ err = ""
    /\ out = NoOutput

\* console.log of the help or the version, then return
CliPrint(what) == cli' = [cli EXCEPT !.pc = "exit", !.stdout = [kind |-> what]]

\* console.error(message); process.exitCode = 1; return
CliError(message) == cli' = [cli EXCEPT !.pc = "exit", !.stderr = message, !.exitCode = 1]

\* the test of args.find for the query: bin/aqn1.ts:66, and line 141 of the
\* CLI with -f/--file
IsQueryArg(a) == ~startsWith(a, << "-" >>) /\ ~startsWith(a, FileEq)
IsFileEq(a) == startsWith(a, FileEq)
IsFileOpt(a) == a = OptF \/ a = OptFile

\* lines 161-170 of the CLI with -f/--file: `next` is args[fIdx + 1]
FileOptArg(queryArg, fIdx, next) ==
    IF fIdx = 0 THEN cli' = [cli EXCEPT !.pc = "read", !.queryArg = queryArg]
    ELSE IF falsy(next) \/ startsWith(next, << "-" >>)
    THEN CliError("Error: -f/--file requires a path argument.")
    ELSE cli' = [cli EXCEPT !.pc = "read", !.queryArg = queryArg, !.filePath = next]

\* lines 150-171 of the CLI with -f/--file: eqOpt is args.find(--file=...)
FileOption(queryArg, eqOpt) ==
    IF ~falsy(eqOpt)
    THEN IF falsy(SubSeq(eqOpt, Len(FileEq) + 1, Len(eqOpt)))
         THEN CliError("Error: --file requires a path.")
         ELSE cli' = [cli EXCEPT !.pc = "read", !.queryArg = queryArg,
                                 !.filePath = SubSeq(eqOpt, Len(FileEq) + 1, Len(eqOpt))]
    ELSE FileOptArg(queryArg,
                    findIndex([i \in 1..Len(env.args) |-> IsFileOpt(env.args[i])]),
                    at(env.args,
                       findIndex([i \in 1..Len(env.args) |-> IsFileOpt(env.args[i])]) + 1))

\* the query argument is found, or missing
QueryArg(queryArg) ==
    IF falsy(queryArg)
    THEN cli' = [cli EXCEPT !.pc = "exit", !.stderr = "Error: Missing query argument.",
                            !.stdout = [kind |-> "help"], !.exitCode = 1]
    ELSE IF env.variant = "stdin" THEN cli' = [cli EXCEPT !.pc = "read", !.queryArg = queryArg]
    ELSE FileOption(queryArg,
                    find(env.args, [i \in 1..Len(env.args) |-> IsFileEq(env.args[i])]))

\* main(), the arguments: bin/aqn1.ts:57-72, lines 131-171 with -f/--file
MainArgs ==
    /\ cli.pc = "args"
    /\ IF includes(env.args, OptH) \/ includes(env.args, OptHelp) THEN CliPrint("help")
       ELSE IF includes(env.args, OptV) \/ includes(env.args, OptVersion)
       THEN CliPrint("version")
       ELSE QueryArg(find(env.args, [i \in 1..Len(env.args) |-> IsQueryArg(env.args[i])]))
    /\ UNCHANGED <<input, lib, pc, root, current, prev, sel, modifier, resolved, err, out, env>>

\* `input` is read: the CLI with -f/--file refuses an empty input, lines 190-194
InputRead(bytes) ==
    IF env.variant = "file" /\ Len(bytes) = 0
    THEN CliError("Error: No input data.")
    ELSE cli' = [cli EXCEPT !.pc = "query", !.data = bytes]

\* readStdin(): a stream error rejects the promise, which the catch of main reports
ReadStdin ==
    IF env.stdin.ok THEN InputRead(env.stdin.bytes) ELSE CliError("stdin error")

\* fs.promises.readFile(filePath), lines 176-185 of the CLI with -f/--file
ReadFile(file) ==
    IF file.ok THEN InputRead(file.bytes) ELSE CliError("Input Read Error")

\* main(), the input: bin/aqn1.ts:74, lines 174-194 with -f/--file
MainRead ==
    /\ cli.pc = "read"
    /\ IF cli.filePath # Undefined THEN ReadFile(Files(cli.filePath)) ELSE ReadStdin
    /\ UNCHANGED <<input, lib, pc, root, current, prev, sel, modifier, resolved, err, out, env>>

\* the call of parseAndEvaluate(input, queryArg) with the query parsed to `ast`
CallEvaluate(ast) ==
    IF ast.ok
    THEN /\ cli' = [cli EXCEPT !.pc = "eval", !.ast = ast]
         /\ input' = cli.data
         /\ pc' = "start"
    ELSE /\ CliError("Invalid Query Syntax")
         /\ input' = input
         /\ pc' = pc

\* parseAndEvaluate, line 327: the query is parsed before the input is decoded
MainParseQuery ==
    /\ cli.pc = "query"
    /\ CallEvaluate(parseQuery(cli.queryArg))
    /\ UNCHANGED <<lib, root, current, prev, sel, modifier, resolved, err, out, env>>

\* the selector of the query that select() applies next
NextSelector ==
    IF cli.pc = "eval" /\ cli.step < Len(cli.ast.selectors)
    THEN cli.ast.selectors[cli.step + 1] ELSE NoSelector

\* the loop of select() moves to the next selector
NextStep == cli' = [cli EXCEPT !.step = cli.step + 1] /\ env' = env

\* MainExit with the exit code left alone in the catch
MainExitZero ==
    /\ cli.pc = "eval"
    /\ pc \in {"done", "failed"}
    /\ IF pc = "failed" THEN cli' = [cli EXCEPT !.pc = "exit", !.stderr = err]
       ELSE IF out.hasBinary
       THEN cli' = [cli EXCEPT !.pc = "exit", !.stdout = [kind |-> "binary", data |-> out.binary]]
       ELSE IF out.hasText /\ out.text # << >> /\ out.text # Lit("")
       THEN cli' = [cli EXCEPT !.pc = "exit", !.stdout = [kind |-> "text", data |-> out.text]]
       ELSE cli' = [cli EXCEPT !.pc = "exit"]
    /\ UNCHANGED <<input, lib, pc, root, current, prev, sel, modifier, resolved, err, out, env>>

\* main(), the result: bin/aqn1.ts:75-87, lines 196-212 with -f/--file
MainExit ==
    /\ cli.pc = "eval"
    /\ pc \in {"done", "failed"}
    /\ IF pc = "failed" THEN CliError(err)
       ELSE IF out.hasBinary
       THEN cli' = [cli EXCEPT !.pc = "exit", !.stdout = [kind |-> "binary", data |-> out.binary]]
       ELSE IF out.hasText /\ out.text # << >> /\ out.text # Lit("")
       THEN cli' = [cli EXCEPT !.pc = "exit", !.stdout = [kind |-> "text", data |-> out.text]]
       ELSE cli' = [cli EXCEPT !.pc = "exit"]
    /\ UNCHANGED <<input, lib, pc, root, current, prev, sel, modifier, resolved, err, out, env>>

CliNext ==
    \/ MainArgs
    \/ MainRead
    \/ MainParseQuery
    \/ cli.pc = "eval" /\ ParseInput /\ UNCHANGED <<env, cli>>
    \/ \E n \in 0..MaxIndex :
           NextSelector = [type |-> "index", value |-> n] /\ SelectIndex(n) /\ NextStep
    \/ \E t \in TagArgs :
           NextSelector = [type |-> "tag", value |-> t] /\ SelectTag(t) /\ NextStep
    \/ NextSelector = [type |-> "decode", value |-> 0] /\ SelectDecode /\ NextStep
    \/ \E m \in Modifiers :
           /\ cli.pc = "eval" /\ cli.step = Len(cli.ast.selectors) /\ m = cli.ast.modifier
           /\ Render(m) /\ UNCHANGED <<env, cli>>
    \/ MainExit

CliSpec == CliInit /\ [][CliNext]_vars

----------------------------------------------------------------------------
(* Vocabulary of the properties *)

RECURSIVE PreOrder(_)
\* the elements below a children sequence in document order: each child,
\* then its whole subtree, then its next sibling
PreOrder(children) ==
    IF Len(children) = 0 THEN << >>
    ELSE << Head(children) >> \o PreOrder(Head(children).children) \o PreOrder(Tail(children))

\* the proper descendants of a node
Descendants(node) == { PreOrder(node.children)[i] : i \in 1..Len(PreOrder(node.children)) }

\* the tree built from the input, and the subtree built by the last decode()
Trees == (IF pc = "start" \/ root = NoNode THEN {} ELSE {root})
            \cup (IF current = NoNode THEN {} ELSE {current})
Elements == UNION { {t} \cup Descendants(t) : t \in Trees }

\* a node built by decode(), or the root: it has no header
IsSynthetic(node) == node.headerBytes = << >>

RECURSIVE ConcatFull(_)
ConcatFull(children) ==
    IF Len(children) = 0 THEN << >>
    ELSE Head(children).fullBytes \o ConcatFull(Tail(children))

Failed(message) == pc = "failed" /\ err = message

----------------------------------------------------------------------------
(* C1: evaluation is fail-fast.  An error is raised exactly when the       *)
(* evaluation ends failed; a failed evaluation has returned no output      *)
(* (neither binary nor text); when a selector step failed the renderer     *)
(* never ran; and nothing runs after the failure.                          *)
C1_FailFast ==
    /\ [](err # "" <=> pc = "failed")
    /\ [](pc = "failed" => out = NoOutput)
    /\ [](pc = "failed" /\ sel # NoSelector => modifier = "unset")
    /\ [][pc # "failed"]_vars

\* a selector step failed after an earlier step had succeeded
C1_Witness == pc = "failed" /\ sel.type = "index" /\ prev # root /\ prev # NoNode

(* C2: Tag(t) selects the first element, in pre-order document order,      *)
(* among the proper descendants of the current element whose first         *)
(* identifier octet is t, and fails with TagNotFound exactly when there    *)
(* is none; the current element itself is never the match.                 *)
C2_TagFirstInDocumentOrder ==
    sel.type = "tag" =>
        LET Matches(n) == n.tagFirstOctet = sel.value
            matching == SelectSeq(PreOrder(prev.children), Matches)
        IN  IF Len(matching) = 0
            THEN Failed("Tag Not Found") /\ current = prev
            ELSE pc = "select" /\ current = matching[1]

\* tag(0) on the root, whose own first octet is 0, selected an element below
\* a SEQUENCE that is not the first top-level element
C2_Witness ==
    /\ sel.type = "tag" /\ sel.value = 0 /\ pc = "select"
    /\ prev = root /\ prev.tagFirstOctet = 0
    /\ \A i \in 1..Len(root.children) : root.children[i] # current
    /\ Len(root.children) >= 2 /\ root.children[1].tagFirstOctet = 2

(* C3: whenever the current element has two distinct non-overlapping       *)
(* descendants that match t and whose recorded offsets differ, Tag(t)      *)
(* selects the one with the smaller offset.                                *)
C3_TagSmallestOffset ==
    sel.type = "tag" /\ pc = "select" =>
        \A d \in Descendants(prev) :
            ( /\ d.tagFirstOctet = sel.value
              /\ d # current
              /\ d \notin Descendants(current)
              /\ current \notin Descendants(d)
              /\ d.offset # current.offset )
            => current.offset < d.offset

C6_Index ==
    sel.type = "index" =>
        IF prev.constructed /\ sel.value < Len(prev.children)
        THEN pc = "select" /\ current = prev.children[sel.value + 1]
        ELSE Failed("Index Out of Bounds") /\ current = prev

\* index(0) was refused on a primitive whose content is a well-formed TLV
C6_Witness ==
    /\ sel.type = "index" /\ sel.value = 0 /\ pc = "failed"
    /\ ~prev.constructed /\ Len(prev.contentBytes) > 0
    /\ parseTLVStream(prev.contentBytes).ok

(* C7: Decode() on a BIT STRING re-decodes the content without its first    *)
(* byte, on an OCTET STRING the content unchanged; on a BIT STRING with     *)
(* empty content it fails with ValueError; on success the selection is a    *)
(* headerless constructed element over exactly those bytes, whose children  *)
(* are the elements decoded from them.                                      *)
C7_DecodeContent ==
    sel.type = "decode" /\ IsDecodable(prev) =>
        IF prev.tagNumber = 3 /\ Len(prev.contentBytes) = 0
        THEN Failed("Value Error")
        ELSE LET inner == IF prev.tagNumber = 3 THEN Tail(prev.contentBytes)
                          ELSE prev.contentBytes
             IN  IF pc = "select"
                 THEN /\ current.headerBytes = << >>
                      /\ current.constructed
                      /\ current.contentBytes = inner
                      /\ current.fullBytes = inner
                      /\ ConcatFull(current.children) = inner
                      /\ current.children = parseTLVStream(inner).nodes
                 ELSE Failed("Value Error") /\ ~parseTLVStream(inner).ok

\* decode() of a BIT STRING produced an element below the new selection
C7_Witness ==
    /\ sel.type = "decode" /\ pc = "select"
    /\ prev.tagNumber = 3 /\ ~prev.constructed /\ Len(current.children) > 0

----------------------------------------------------------------------------
(* The header of an encoded element, read from its bytes: the identifier    *)
(* octets (one, or the long form up to the first octet below 0x80) and the  *)
(* length octets (one, plus as many as a long form announces).              *)

RECURSIVE IdentifierEnd(_, _)
\* the 1-based position of the last identifier octet at or after position i
IdentifierEnd(bytes, i) ==
    IF i > Len(bytes) THEN i
    ELSE IF bytes[i] >= 128 THEN IdentifierEnd(bytes, i + 1) ELSE i

IdentifierOctets(bytes) ==
    IF Len(bytes) = 0 THEN 0
    ELSE IF bytes[1] % 32 = 31 THEN IdentifierEnd(bytes, 2) ELSE 1

\* the first length octet, -1 when the bytes end before it
LengthOctet(bytes) ==
    IF IdentifierOctets(bytes) + 1 > Len(bytes) THEN -1
    ELSE bytes[IdentifierOctets(bytes) + 1]

HeaderOctets(bytes) ==
    IdentifierOctets(bytes) + 1
        + (IF LengthOctet(bytes) >= 128 THEN LengthOctet(bytes) % 128 ELSE 0)

EOC == << 0, 0 >>

(* C8: every decoded element satisfies fullBytes = headerBytes ++           *)
(* contentBytes ++ (the two-byte EOC when its length octet is 0x80, the     *)
(* indefinite form), and headerBytes holds exactly the identifier and       *)
(* length octets.                                                           *)
C8_FullIsHeaderContentEoc ==
    \A e \in Elements :
        ~IsSynthetic(e) =>
            /\ Len(e.headerBytes) = HeaderOctets(e.fullBytes)
            /\ e.fullBytes = e.headerBytes \o e.contentBytes
                                \o (IF LengthOctet(e.fullBytes) = 128 THEN EOC ELSE << >>)

(* C9: in every tree built by the decoder a primitive element has no        *)
(* children, and the fullBytes of the children of a constructed element or  *)
(* a synthetic root, concatenated in order, are exactly its contentBytes.   *)
C9_ChildrenCoverContent ==
    \A e \in Elements :
        /\ ~e.constructed => e.children = << >>
        /\ e.constructed => ConcatFull(e.children) = e.contentBytes

\* a decoded constructed element with two children, one of them constructed
C9_Witness ==
    \E e \in Elements :
        /\ ~IsSynthetic(e) /\ e.constructed /\ Len(e.children) = 2
        /\ e.children[1].constructed /\ ~e.children[2].constructed

\* the string types of the auto table, by class, form and tag number
IsRecognizedString(node) ==
    node.tagClass = "UNIVERSAL" /\ ~node.constructed /\ node.tagNumber \in {12, 19, 22, 26, 30}

(* C10: the utf8 renderer fails with ValueError when the selected element   *)
(* is not a recognized string type or when its content is not valid UTF-8;  *)
(* it never returns text for malformed content.                             *)
C10_Utf8Strict ==
    modifier = "utf8" =>
        IF IsRecognizedString(current) /\ ~utf8Decode(current.contentBytes).malformed
        THEN pc = "done" /\ out = Text(Chars(utf8Decode(current.contentBytes).text))
        ELSE Failed("Value Error") /\ out = NoOutput

\* C8 holds where the library rejects both a length past the buffer and 0x80:
\* there no element with the length octet 0x80 is ever decoded
C8_InStrictBuild ==
    ~lib.uncheckedLength /\ ~lib.indefiniteAsZero => C8_FullIsHeaderContentEoc

----------------------------------------------------------------------------
(* The fixed table of the type renderer, by tag number: the universal tag   *)
(* numbers of X.680, SEQUENCE = 16 and SET = 17; "" when the number is      *)
(* absent from the table.                                                    *)
NameOfTagNumber(n) ==
    CASE n = 1 -> "BOOLEAN"
      [] n = 2 -> "INTEGER"
      [] n = 3 -> "BIT STRING"
      [] n = 4 -> "OCTET STRING"
      [] n = 5 -> "NULL"
      [] n = 6 -> "OBJECT IDENTIFIER"
      [] n = 12 -> "UTF8String"
      [] n = 16 -> "SEQUENCE"
      [] n = 17 -> "SET"
      [] n = 18 -> "NumericString"
      [] n = 19 -> "PrintableString"
      [] n = 20 -> "TeletexString"
      [] n = 21 -> "VideotexString"
      [] n = 22 -> "IA5String"
      [] n = 23 -> "UTCTime"
      [] n = 24 -> "GeneralizedTime"
      [] n = 25 -> "GraphicString"
      [] n = 26 -> "VisibleString"
      [] n = 27 -> "GeneralString"
      [] n = 28 -> "UniversalString"
      [] n = 30 -> "BMPString"
      [] OTHER -> ""

\* the name of an element by class and tag number alone
NameByTagNumber(node) ==
    IF node.tagClass = "UNIVERSAL"
    THEN IF NameOfTagNumber(node.tagNumber) # "" THEN NameOfTagNumber(node.tagNumber)
         ELSE "UNIVERSAL " \o ToString(node.tagNumber)
    ELSE node.tagClass \o " " \o ToString(node.tagNumber)

(* C11: the type renderer always succeeds and names the selected element    *)
(* from its class and tag number alone: a UNIVERSAL element by the table    *)
(* entry of its tag number, "UNIVERSAL <n>" only when the number is absent  *)
(* from the table, "<CLASS> <n>" for the other classes; the constructed     *)
(* bit does not change the name.                                            *)
C11_TypeByTagNumber ==
    resolved = "type" => pc = "done" /\ out = Text(Lit(NameByTagNumber(current)))

----------------------------------------------------------------------------
\* an encoded indefinite-length constructed element: a one-octet constructed
\* identifier, the length octet 0x80, a content that is empty or one
\* definite-length primitive element, and the end-of-contents marker
IsIndefiniteEncoding(bytes) ==
    /\ Len(bytes) >= 4
    /\ bytes[1] % 32 # 31 /\ (bytes[1] \div 32) % 2 = 1
    /\ bytes[2] = 128
    /\ SubSeq(bytes, Len(bytes) - 1, Len(bytes)) = EOC
    /\ \/ Len(bytes) = 4
       \/ /\ Len(bytes) >= 6
          /\ bytes[3] % 32 # 31 /\ (bytes[3] \div 32) % 2 = 0
          /\ bytes[3] # 0
          /\ bytes[4] = Len(bytes) - 6

(* C12: an input that is one indefinite-length constructed element is       *)
(* decoded into one top-level element whose fullBytes are the whole         *)
(* encoding, ending with the end-of-contents marker 0x00 0x00, and whose    *)
(* contentBytes and children cover the bytes between the header and the     *)
(* marker, the marker excluded.                                             *)
C12_IndefiniteKeepsEoc ==
    pc # "start" /\ IsIndefiniteEncoding(input) =>
        /\ ~Failed("TLV Parse Error")
        /\ root # NoNode
        /\ Len(root.children) = 1
        /\ root.children[1].fullBytes = input
        /\ root.children[1].contentBytes = SubSeq(input, 3, Len(input) - 2)
        /\ ConcatFull(root.children[1].children) = SubSeq(input, 3, Len(input) - 2)

----------------------------------------------------------------------------
\* one hex digit, lower case
LowerHexDigit(d) ==
    CASE d = 0 -> "0" [] d = 1 -> "1" [] d = 2 -> "2" [] d = 3 -> "3"
      [] d = 4 -> "4" [] d = 5 -> "5" [] d = 6 -> "6" [] d = 7 -> "7"
      [] d = 8 -> "8" [] d = 9 -> "9" [] d = 10 -> "a" [] d = 11 -> "b"
      [] d = 12 -> "c" [] d = 13 -> "d" [] d = 14 -> "e" [] d = 15 -> "f"

RECURSIVE LowerHex(_)
\* two lower-case hex digits per byte, no separators
LowerHex(bytes) ==
    IF Len(bytes) = 0 THEN ""
    ELSE LowerHexDigit(Head(bytes) \div 16) \o LowerHexDigit(Head(bytes) % 16)
             \o LowerHex(Tail(bytes))

(* C13: the hex renderer always succeeds; for a primitive element it        *)
(* outputs the lower-case hex of contentBytes, for a constructed element    *)
(* or a synthetic root the lower-case hex of its immediate children's       *)
(* fullBytes concatenated in order, without the element's own header.       *)
C13_HexOfContent ==
    resolved = "hex" =>
        /\ pc = "done"
        /\ out = Text(Lit(LowerHex(IF current.constructed
                                   THEN ConcatFull(current.children)
                                   ELSE current.contentBytes)))

\* @hex on a decoded constructed element with a header and two children
C13_Witness ==
    /\ modifier = "hex" /\ pc = "done"
    /\ current.constructed /\ ~IsSynthetic(current) /\ Len(current.children) = 2
    /\ out.text # Lit(LowerHex(current.fullBytes))

----------------------------------------------------------------------------
\* the table of the auto modifier, by class, form and tag number
AutoTable(node) ==
    IF node.constructed THEN "tlv"
    ELSE IF node.tagClass = "UNIVERSAL" /\ node.tagNumber = 2 THEN "int"
    ELSE IF node.tagClass = "UNIVERSAL" /\ node.tagNumber \in {12, 19, 22, 26, 30} THEN "utf8"
    ELSE "hex"

(* C14: the auto modifier, and a query without modifier, resolve by class,  *)
(* form and tag number of the selected element alone: constructed gives     *)
(* tlv, UNIVERSAL primitive 2 gives int, UNIVERSAL primitive 12, 19, 22,    *)
(* 26 or 30 gives utf8, every other element hex; never auto itself or       *)
(* another modifier.  A modifier given in the query is dispatched as it is. *)
C14_AutoByTable ==
    /\ modifier \in {"auto", "none"} =>
           resolved = AutoTable(current) /\ resolved \in {"tlv", "int", "utf8", "hex"}
    /\ modifier \notin {"auto", "none", "unset"} => resolved = modifier

\* a query without modifier rendered an INTEGER whose tag number 2 is
\* encoded in the long form (identifier octets 1f 02)
C14_Witness ==
    /\ modifier = "none" /\ pc = "done" /\ resolved = "int"
    /\ Len(current.headerBytes) = 3 /\ current.fullBytes[1] = 31

----------------------------------------------------------------------------
RECURSIVE UnsignedBE(_)
\* the bytes read as a big-endian unsigned number
UnsignedBE(bytes) ==
    IF Len(bytes) = 0 THEN 0
    ELSE UnsignedBE(SubSeq(bytes, 1, Len(bytes) - 1)) * 256 + bytes[Len(bytes)]

\* the bytes read as a big-endian two's-complement number; no bytes read as 0
SignedBE(bytes) ==
    IF Len(bytes) = 0 THEN 0
    ELSE UnsignedBE(bytes) - (IF bytes[1] >= 128 THEN 2 ^ (8 * Len(bytes)) ELSE 0)

\* the n-byte big-endian two's-complement encoding of x
EncodeBE(x, n) == [i \in 1..n |-> ((x % (2 ^ (8 * n))) \div (2 ^ (8 * (n - i)))) % 256]

\* the INTEGER elements
IsInteger(node) == node.tagClass = "UNIVERSAL" /\ ~node.constructed /\ node.tagNumber = 2

(* C15: the int renderer fails with IncompatibleOutputFormat, without       *)
(* output, unless the selected element is a primitive UNIVERSAL element     *)
(* with tag number 2; otherwise it outputs the decimal text of the signed   *)
(* integer x that contentBytes encode in big-endian two's complement        *)
(* (empty content: 0).                                                      *)
C15_IntTwosComplement ==
    resolved = "int" =>
        IF IsInteger(current)
        THEN /\ pc = "done"
             /\ out = Text(Lit(ToString(SignedBE(current.contentBytes))))
             /\ EncodeBE(SignedBE(current.contentBytes), Len(current.contentBytes))
                    = current.contentBytes
             /\ Len(current.contentBytes) > 0 =>
                    /\ SignedBE(current.contentBytes) >= -(2 ^ (8 * Len(current.contentBytes) - 1))
                    /\ SignedBE(current.contentBytes) < 2 ^ (8 * Len(current.contentBytes) - 1)
        ELSE Failed("Incompatible Output Format") /\ out = NoOutput

\* @int rendered a negative INTEGER of two content bytes
C15_Witness ==
    /\ modifier = "int" /\ pc = "done"
    /\ Len(current.contentBytes) = 2 /\ current.contentBytes[1] >= 128
    /\ SignedBE(current.contentBytes) < -128

----------------------------------------------------------------------------
(* C16: the count renderer fails with IncompatibleOutputFormat, without     *)
(* output, when the selected element is not constructed; for a constructed  *)
(* element it outputs the decimal number of its immediate children, and     *)
(* on the root that is the number of top-level elements of the input.       *)
C16_CountImmediateChildren ==
    resolved = "count" =>
        IF current.constructed
        THEN /\ pc = "done"
             /\ out = Text(Lit(ToString(Len(current.children))))
             /\ current = root => Len(current.children) = Len(parseTLVStream(input).nodes)
        ELSE Failed("Incompatible Output Format") /\ out = NoOutput

\* @count gave 2 for an element with two children and three descendants
C16_Witness ==
    /\ modifier = "count" /\ pc = "done" /\ out = Text(Lit("2"))
    /\ Len(current.children) = 2 /\ Len(PreOrder(current.children)) = 3

----------------------------------------------------------------------------
(* C17: a successful evaluation returns exactly one of binary and text:     *)
(* binary, equal to the selected element's fullBytes, when the resolved     *)
(* modifier is tlv, text for tlvhex, hex, int, utf8, count, type and        *)
(* pretty; before the end and after a failure neither field is set.         *)
C17_ExactlyOneField ==
    /\ pc = "done" =>
           /\ out.hasBinary # out.hasText
           /\ resolved = "tlv" => out.hasBinary /\ out.binary = current.fullBytes
           /\ resolved # "tlv" =>
                  /\ out.hasText
                  /\ resolved \in {"tlvhex", "hex", "int", "utf8", "count", "type", "pretty"}
    /\ pc # "done" => ~out.hasBinary /\ ~out.hasText

\* a query without modifier returned the bytes of a constructed element
C17_Witness ==
    /\ pc = "done" /\ modifier = "none" /\ resolved = "tlv"
    /\ out.hasBinary /\ ~out.hasText /\ ~IsSynthetic(current) /\ Len(out.binary) > 2

----------------------------------------------------------------------------
(* C18: the recursion depth of decoding and of pretty-printing never        *)
(* exceeds a fixed limit, however deeply the constructed elements of the    *)
(* input are nested.                                                        *)
C18_RecursionBounded ==
    /\ root # NoNode => parseDepth(root.children) <= RecursionLimit
    /\ resolved = "pretty" /\ pc = "done" => prettyDepth(current) <= RecursionLimit

----------------------------------------------------------------------------
(* C19: the tree built from the input is never modified.  No selector step  *)
(* and no renderer changes the root; a failed step and a renderer leave     *)
(* the selection where it was; Index and Tag select an element that is      *)
(* already below the selection; Decode builds a new headerless element      *)
(* whose children are newly decoded from its bytes and leaves the element   *)
(* it was applied to as it was.                                             *)
C19_TreeImmutable ==
    [][ /\ pc = "select" => root' = root
        /\ pc = "select" /\ pc' # "select" => current' = current
        /\ pc = "select" /\ pc' = "select" /\ sel'.type \in {"index", "tag"} =>
               current' \in Descendants(current)
        /\ pc = "select" /\ pc' = "select" /\ sel'.type = "decode" =>
               /\ prev' = current
               /\ IsSynthetic(current')
               /\ current'.children = parseTLVStream(current'.contentBytes).nodes ]_vars

\* decode() built a subtree from an element of the input's tree, which is
\* still below the root
C19_Witness ==
    /\ sel.type = "decode" /\ pc = "select" /\ Len(current.children) > 0
    /\ prev \in Descendants(root) /\ current \notin Descendants(root)

----------------------------------------------------------------------------
(* C20: no evaluation ends in the "Unknown selector" failure or in the      *)
(* "Invalid Modifier" failure: every selector applied satisfies exactly     *)
(* one of the three type guards, and the modifier switch always dispatches  *)
(* on one of the eight renderer names.                                      *)
C20_NoInvalidBranch ==
    /\ err \notin {"Invalid Modifier", "Invalid Query Syntax"}
    /\ resolved # "unset" =>
           resolved \in {"tlv", "tlvhex", "hex", "int", "count", "utf8", "type", "pretty"}
    /\ sel # NoSelector =>
           Cardinality({g \in {"index", "tag", "decode"} :
                            \/ g = "index" /\ isIndexSelector(sel)
                            \/ g = "tag" /\ isTagSelector(sel)
                            \/ g = "decode" /\ isDecodeSelector(sel)}) = 1

\* the auto modifier was dispatched to the utf8 renderer after a selector step
C20_Witness ==
    /\ modifier = "auto" /\ pc = "done" /\ resolved = "utf8"
    /\ current # root /\ out.hasText

----------------------------------------------------------------------------
\* sub occurs in bytes as a run of consecutive bytes
IsContiguousIn(sub, bytes) ==
    \E i \in 0..(Len(bytes) - Len(sub)) : SubSeq(bytes, i + 1, i + Len(sub)) = sub

(* C23: after any sequence of successful selector steps the fullBytes and   *)
(* the contentBytes of the current element are runs of consecutive bytes    *)
(* of the input buffer, so tlv, tlvhex and hex output only bytes that are   *)
(* contiguous in the input.                                                 *)
C23_SelectionContiguousInInput ==
    /\ pc \in {"select", "done"} =>
           /\ IsContiguousIn(current.fullBytes, input)
           /\ IsContiguousIn(current.contentBytes, input)
    /\ pc = "done" /\ resolved = "tlv" => IsContiguousIn(out.binary, input)

\* index(n) selected an element inside the subtree that decode() built from
\* a BIT STRING
C23_Witness ==
    /\ sel.type = "index" /\ pc = "select"
    /\ IsSynthetic(prev) /\ prev # root /\ prev.fullBytes # input
    /\ Len(current.fullBytes) >= 2 /\ ~IsSynthetic(current)
    /\ \E e \in Descendants(root) : e.tagNumber = 3 /\ Tail(e.contentBytes) = prev.fullBytes

----------------------------------------------------------------------------
\* the command line asks for the help or the version
HelpOrVersionAsked ==
    \E i \in 1..Len(env.args) : env.args[i] \in {OptH, OptHelp, OptV, OptVersion}

(* C21: a run of the CLI ends with exit code 0 exactly when the help or     *)
(* the version was asked for or the evaluation produced a result, and with  *)
(* exit code 1, and a message on stderr, on every other path: missing       *)
(* query argument, option without path, unreadable or empty input, invalid  *)
(* query, failed decoding, failed selection, failed renderer.               *)
C21_ExitCode ==
    cli.pc = "exit" =>
        /\ cli.exitCode \in {0, 1}
        /\ cli.exitCode = 0 <=> (HelpOrVersionAsked \/ pc = "done")
        /\ cli.exitCode = 1 <=> cli.stderr # ""
        /\ pc = "failed" => cli.exitCode = 1 /\ cli.stderr = err
        /\ pc = "done" /\ out.hasBinary => cli.stdout = [kind |-> "binary", data |-> out.binary]

\* a run on the file a.der ended with exit code 1 because tag(0x02) found
\* no element
C21_Witness ==
    /\ cli.pc = "exit" /\ cli.exitCode = 1 /\ env.variant = "file"
    /\ cli.filePath = << "a.der" >> /\ pc = "failed" /\ err = "Tag Not Found"

----------------------------------------------------------------------------
\* the command line is a query and '-f <path>' (or '--file <path>'), the
\* query before or after the option
IsQueryAndFile(args) ==
    /\ Len(args) = 3
    /\ \/ args[1] \in CliQueries /\ args[2] \in {OptF, OptFile} /\ args[3] \in CliPaths
       \/ args[1] \in {OptF, OptFile} /\ args[2] \in CliPaths /\ args[3] \in CliQueries

\* the query and the path of such a command line
UserQuery(args) == IF args[1] \in CliQueries THEN args[1] ELSE args[3]
UserPath(args) == IF args[1] \in CliQueries THEN args[3] ELSE args[2]

(* C22: in the CLI that accepts -f/--file, for a command line made of a     *)
(* query and '-f <path>' in either order, the query argument is the query,  *)
(* never the path, the file path is the path, and when the file can be      *)
(* read the query is evaluated against its bytes.                           *)
C22_QueryNeverThePath ==
    env.variant = "file" /\ IsQueryAndFile(env.args) =>
        /\ cli.pc \in {"read", "query", "eval"} =>
               cli.queryArg = UserQuery(env.args) /\ cli.filePath = UserPath(env.args)
        /\ cli.pc = "exit" /\ Files(UserPath(env.args)).ok =>
               /\ pc \in {"done", "failed"}
               /\ input = Files(UserPath(env.args)).bytes
               /\ cli.ast = parseQuery(UserQuery(env.args))

====
